---- MODULE Spec2Model ----
(***************************************************************************)
(* Extended YAML loader of tools/onlyaml.py: variable interpolation with   *)
(* deferred retries, !include and !script directives.                      *)
(*                                                                         *)
(* Strings are sequences of one-character strings.  The alphabet is ASCII, *)
(* so every scalar is of Python type str.  Documents are given as composed *)
(* node trees; every document has a mapping at its top level and every     *)
(* mapping key is a string scalar.                                         *)
(***************************************************************************)
EXTENDS Integers, Sequences, FiniteSets, TLC

(***************************************************************************)
(* Bounds                                                                  *)
(***************************************************************************)
\* largest number of top-level keys of the root document
MaxEntries == 2

(***************************************************************************)
(* Strings and string.Template                                             *)
(***************************************************************************)
Letters ==
  {"a","b","c","d","e","f","g","h","i","j","k","l","m","n","o","p","q","r",
   "s","t","u","v","w","x","y","z",
   "A","B","C","D","E","F","G","H","I","J","K","L","M","N","O","P","Q","R",
   "S","T","U","V","W","X","Y","Z"}

Digits == {"0","1","2","3","4","5","6","7","8","9"}

\* string.Template.idpattern, first character: [_a-z] under re.IGNORECASE
IsIdStart(ch) == ch \in Letters \cup {"_"}

\* string.Template.idpattern, later characters: [_a-z0-9]
IsIdCont(ch) == ch \in Letters \cup Digits \cup {"_"}

\* index of the last character of the identifier that holds position j
RECURSIVE IdEnd(_, _)
IdEnd(s, j) == IF j < Len(s) /\ IsIdCont(s[j + 1]) THEN IdEnd(s, j + 1) ELSE j

\* dict.update
Update(f, g) ==
  [x \in (DOMAIN f) \cup (DOMAIN g) |-> IF x \in DOMAIN g THEN g[x] ELSE f[x]]

EmptyDict == [x \in {} |-> x]

\* LazyString.UNDEFINED
UNDEFINED ==
  <<"T","H","I","S"," ","S","T","R","I","N","G"," ",
    "I","N","T","E","N","T","I","O","N","A","L","L","Y"," ",
    "L","E","F","T"," ","B","L","A","N","K">>

\* the key of the top-level mapping that Loader.construct_document looks for
VARIABLES_KEY == <<"v","a","r","i","a","b","l","e","s">>

(***************************************************************************)
(* Values of the constructed tree: a plain str, a LazyString (by identity) *)
(* or a dict (by identity).                                                *)
(***************************************************************************)
NoneVal == [k |-> "none", s |-> <<>>, id |-> 0]
StrVal(s) == [k |-> "str", s |-> s, id |-> 0]
LazyVal(n) == [k |-> "lazy", s |-> <<>>, id |-> n]
DictVal(n) == [k |-> "dict", s |-> <<>>, id |-> n]

\* outcome of a call: exc = "" when it returns, else the exception's class
Ok(out) == [exc |-> "", out |-> out, arg |-> <<>>]
Exc(cls, arg) == [exc |-> cls, out |-> <<>>, arg |-> arg]

\* LazyString without its __str__: the str it holds is what formats
LazyStrUnchecked(lz) == IF ~lz.init THEN Ok(UNDEFINED) ELSE Ok(lz.data)

\* LazyString.__str__ of a lazy string whose fields are lz
LazyStr(lz) ==
  IF ~lz.init THEN Exc("ValueError", lz.val)
  ELSE IF lz.data = UNDEFINED THEN Exc("ValueError", lz.val)
  ELSE Ok(lz.data)

\* '%s' % (val,) as string.Template.substitute applies it to a context value
Format(v, lzs) ==
  IF v.k = "lazy" THEN LazyStr(lzs[v.id]) ELSE Ok(v.s)

\* string.Template.substitute: the matches of the pattern, left to right
RECURSIVE Substitute(_, _, _, _, _)
Substitute(s, i, ctx, lzs, acc) ==
  IF i > Len(s) THEN Ok(acc)
  ELSE IF s[i] # "$" THEN Substitute(s, i + 1, ctx, lzs, Append(acc, s[i]))
  ELSE IF i < Len(s) /\ s[i + 1] = "$"
    THEN Substitute(s, i + 2, ctx, lzs, Append(acc, "$"))
  ELSE IF i < Len(s) /\ IsIdStart(s[i + 1])
    THEN LET j == IdEnd(s, i + 1)
             named == SubSeq(s, i + 1, j)
         IN  IF named \notin DOMAIN ctx THEN Exc("KeyError", named)
             ELSE LET r == Format(ctx[named], lzs)
                  IN  IF r.exc # "" THEN r
                      ELSE Substitute(s, j + 1, ctx, lzs, acc \o r.out)
  ELSE IF i + 1 < Len(s) /\ s[i + 1] = "{" /\ IsIdStart(s[i + 2])
          /\ IdEnd(s, i + 2) < Len(s) /\ s[IdEnd(s, i + 2) + 1] = "}"
    THEN LET j == IdEnd(s, i + 2)
             braced == SubSeq(s, i + 2, j)
         IN  IF braced \notin DOMAIN ctx THEN Exc("KeyError", braced)
             ELSE LET r == Format(ctx[braced], lzs)
                  IN  IF r.exc # "" THEN r
                      ELSE Substitute(s, j + 2, ctx, lzs, acc \o r.out)
  ELSE Exc("ValueError", s)

\* str.split() on whitespace
RECURSIVE SplitFrom(_, _, _, _)
SplitFrom(s, i, cur, acc) ==
  IF i > Len(s) THEN (IF cur = <<>> THEN acc ELSE Append(acc, cur))
  ELSE IF s[i] = " "
    THEN SplitFrom(s, i + 1, <<>>, IF cur = <<>> THEN acc ELSE Append(acc, cur))
  ELSE SplitFrom(s, i + 1, Append(cur, s[i]), acc)

Split(s) == SplitFrom(s, 1, <<>>, <<>>)

\* position of the first occurrence of ch in s, 0 when there is none
RECURSIVE Find(_, _, _)
Find(s, ch, i) ==
  IF i > Len(s) THEN 0 ELSE IF s[i] = ch THEN i ELSE Find(s, ch, i + 1)

\* str.partition('='): <<head, separator, tail>>
Partition(s) ==
  LET p == Find(s, "=", 1)
  IN  IF p = 0 THEN <<s, <<>>, <<>>>>
      ELSE <<SubSeq(s, 1, p - 1), <<"=">>, SubSeq(s, p + 1, Len(s))>>

(***************************************************************************)
(* Document nodes, as the composer hands them to the constructor           *)
(***************************************************************************)
NoNode == [tag |-> "none", kind |-> "none", str |-> <<>>, pairs |-> <<>>]
Scalar(s) == [tag |-> "str", kind |-> "scalar", str |-> s, pairs |-> <<>>]
Mapping(ps) == [tag |-> "map", kind |-> "mapping", str |-> <<>>, pairs |-> ps]
Include(s) == [tag |-> "!include", kind |-> "scalar", str |-> s, pairs |-> <<>>]
Script(s) == [tag |-> "!script", kind |-> "scalar", str |-> s, pairs |-> <<>>]

\* an !include given as a mapping
IncludeMapping(ps) ==
  [tag |-> "!include", kind |-> "mapping", str |-> <<>>, pairs |-> ps]

\* the key `=` of a mapping, which the resolver tags as a value key
ValueKey == [tag |-> "value", kind |-> "scalar", str |-> <<"=">>, pairs |-> <<>>]

\* one key/value pair of a mapping node whose key is the plain string k
Pair(k, node) == <<Scalar(k), node>>

(***************************************************************************)
(* The files that !include can name, and what the shell does with the      *)
(* commands that !script can name.                                         *)
(***************************************************************************)
IncludeFiles ==
  (<<"c","1">> :> Mapping(<<Pair(<<"x">>, Scalar(<<"$","k">>))>>)) @@
  (<<"c","2">> :> Mapping(<<Pair(VARIABLES_KEY,
                                 Mapping(<<Pair(<<"k">>, Scalar(<<"W">>))>>)),
                            Pair(<<"x">>, Scalar(<<"$","k">>))>>)) @@
  (<<"c","3">> :> Mapping(<<Pair(<<"x">>, Scalar(<<"$","b">>))>>)) @@
  (<<"c","4">> :> Mapping(<<Pair(<<"x">>, Scalar(<<"$","z">>))>>)) @@
  (<<"c","5">> :> Mapping(<<Pair(<<"y">>, Include(<<"c","3">>))>>))

\* os.system("<cmd> > <tmp>"): exit status, and the text left in <tmp>
ShellOk(doc) == [status |-> 0, parses |-> TRUE, doc |-> doc]
ShellGarbage == [status |-> 0, parses |-> FALSE, doc |-> NoNode]
ShellFail(n) == [status |-> n, parses |-> FALSE, doc |-> NoNode]

Shell(cmd) ==
  IF cmd = <<"t">> THEN ShellOk(Mapping(<<Pair(<<"v">>, Scalar(<<"$","b">>))>>))
  ELSE IF cmd = <<"g">> THEN ShellGarbage
  ELSE IF cmd = <<"f">> THEN ShellFail(1)
  ELSE ShellFail(127)

(***************************************************************************)
(* The root documents: every ordering of at most MaxEntries entries of the *)
(* pool, with at most one `variables` key.                                 *)
(***************************************************************************)
EntryPool ==
  << Pair(<<"a">>, Scalar(<<"$","b">>)),
     Pair(VARIABLES_KEY, Mapping(<<Pair(<<"b">>, Scalar(<<"X">>)),
                                   Pair(<<"k">>, Scalar(<<"V">>))>>)),
     Pair(VARIABLES_KEY, Mapping(<<Pair(<<"b">>, Scalar(<<"$","c">>)),
                                   Pair(<<"c">>, Scalar(<<"X">>))>>)),
     Pair(<<"u">>, Scalar(<<"$","z">>)),
     Pair(<<"i">>, Include(<<"c","1"," ","k","=","O">>)),
     Pair(<<"j">>, Include(<<"c","2"," ","k","=","O">>)),
     Pair(<<"h">>, Include(<<"c","3">>)),
     Pair(<<"w">>, Include(<<"c","4">>)),
     Pair(<<"m">>, Mapping(<<Pair(<<"i">>, Include(<<"c","1">>))>>)),
     Pair(<<"g">>, Include(<<"c","5">>)),
     Pair(<<"s">>, Script(<<"t">>)),
     Pair(<<"r">>, Script(<<"f">>)),
     Pair(<<"q">>, Script(<<"g">>)),
     Pair(<<"e">>, Script(<<"$","b">>)),
     Pair(<<"d">>, Include(<<"$","b"," ","k","=","O">>)),
     Pair(<<"n">>, Mapping(<<Pair(<<"n">>,
            Mapping(<<Pair(<<"n">>,
               Mapping(<<Pair(<<"a">>, Scalar(<<"$","b">>))>>))>>))>>)),
     Pair(<<"p">>, Scalar(<<"$","$","b">>)),
     Pair(<<"f">>, IncludeMapping(<<<<ValueKey, Scalar(<<"c","1">>)>>,
                                    Pair(<<"k">>, Scalar(<<"O">>))>>)) >>

\* the key of a pair, as a string
KeyOf(pair) == pair[1].str

\* index sequences into the pool: injective, at most one `variables` key
EntryOrders ==
  {o \in UNION {[1..n -> 1..Len(EntryPool)] : n \in 1..MaxEntries} :
     \A p, q \in DOMAIN o :
        p # q => KeyOf(EntryPool[o[p]]) # KeyOf(EntryPool[o[q]])}

RootDocument(o) == Mapping([p \in DOMAIN o |-> EntryPool[o[p]]])

\* os.environ as loadf sees it
Environments ==
  { EmptyDict,
    (<<"b">> :> StrVal(<<"D">>)) @@ (<<"k">> :> StrVal(<<"E">>)) }

DIR_KEY == <<"_","_","D","I","R","_","_">>
MainName == <<"m","a","i","n">>
MainDir == <<"/","e","t","c">>

\* loadf, lines 424-438: the variables handed to Loader.withVariables
loadfVariables(env, vard) ==
  Update(Update(env, DIR_KEY :> StrVal(MainDir)), vard)

(***************************************************************************)
(* State                                                                   *)
(***************************************************************************)
VARIABLES
  strict,      \* the module global `strict`
  document,    \* the root node of the file given to loadf
  loaders,     \* the Loader objects, in order of creation; 1 is the root
  dicts,       \* the dict objects of the tree, by identity
  lazies,      \* the LazyTemplate objects with their LazyString, by identity
  stack,       \* the call stack: construct_document and mapping frames
  result,      \* what loadf has returned or raised, if it has
  tmpfiles,    \* the temporary files of !script that exist
  tmpcount,    \* the number of temporary file names handed out
  ran,         \* the commands given to os.system, in order
  opened,      \* the files opened by !include, in order
  first,       \* the outcome of an earlier call of loadf, if there was one
  dumped,      \* what dump() made of the tree of that call, if it was dumped
  force,       \* App.force of onl-install
  mounts,      \* ProcMountsParser().mounts as App.run reads it
  mainpc,      \* where App.main is
  idx,         \* the position of the loop over the mounts in App.run
  commands,    \* the commands given to check_call, in order
  upgrader,    \* the UpgradeHelper that App.run made, if it has
  helpers,     \* the OnieHelper objects: how often each was shut down
  onieHelper,  \* App.onieHelper: an index into helpers, 0 for None
  code,        \* the local `code` of App.run or App.main
  outcome      \* how App.run ended, and what sys.exit was given

\* what no step of a load touches
\* the state of onl-install (SystemInstall.py)
installer ==
  <<force, mounts, mainpc, idx, commands, upgrader, helpers, onieHelper, code,
    outcome>>

others == <<first, dumped, installer>>

vars == <<strict, document, loaders, dicts, lazies, stack, result,
          tmpfiles, tmpcount, ran, opened, others>>

\* an optional dict: None, or a dict
None == [some |-> FALSE, d |-> EmptyDict]
Some(d) == [some |-> TRUE, d |-> d]

\* LazyTemplate.__init__: the default of the parameter `tries`
DefaultTries == 5

\* Loader.__init__; parent and callsite record where the Loader came from
NewLoader(name, defaults, overrides, root, parent, callsite) ==
  [name |-> name, defaults |-> defaults, overrides |-> overrides,
   variables |-> NoneVal, root |-> root, state_generators |-> <<>>,
   parent |-> parent, callsite |-> callsite]

\* LazyTemplate.__init__ together with the LazyString made by start()
NewLazy(ld, val, directive) ==
  [loader |-> ld, val |-> val, data |-> <<>>, init |-> FALSE,
   tries |-> DefaultTries, attempts |-> 1, directive |-> directive]

\* generator objects: the rest of start(), defer(), a mapping constructor,
\* and the dummy generator fn() of _scan
StartGen(n) == [g |-> "start", lz |-> n, node |-> NoNode, data |-> 0]
DeferGen(n) == [g |-> "defer", lz |-> n, node |-> NoNode, data |-> 0]
MapGen(node, d) == [g |-> "map", lz |-> 0, node |-> node, data |-> d]
FnGen == [g |-> "fn", lz |-> 0, node |-> NoNode, data |-> 0]

\* a frame of Loader.construct_document
DocFrame(ld, node, via, tf) ==
  [f |-> "doc", ld |-> ld, pc |-> "construct", node |-> node, data |-> 0,
   gens |-> <<>>, i |-> 0, mapping |-> EmptyDict, j |-> 0, key |-> <<>>,
   via |-> via, tf |-> tf]

\* a frame of construct_mapping run by the generator of a mapping node
MapFrame(ld, node, d) ==
  [f |-> "map", ld |-> ld, pc |-> "pairs", node |-> node, data |-> d,
   gens |-> <<>>, i |-> 0, mapping |-> EmptyDict, j |-> 1, key |-> <<>>,
   via |-> "", tf |-> 0]

Running == [status |-> "running", exc |-> "", arg |-> <<>>, during |-> "",
            tree |-> NoneVal]

\* the outcome of a call of loadf, as its caller can observe it
NoOutcome == [status |-> "none", tree |-> <<>>]

\* onl-install has not been started
NoUpgrader == [created |-> FALSE, started |-> FALSE, called |-> FALSE,
               raised |-> FALSE, shutdowns |-> 0]
NoRun == [run |-> "none", exit |-> -1]

NotInstalling ==
  /\ force = FALSE
  /\ mounts = <<>>
  /\ mainpc = "idle"
  /\ idx = 0
  /\ commands = <<>>
  /\ upgrader = NoUpgrader
  /\ helpers = <<>>
  /\ onieHelper = 0
  /\ code = -1
  /\ outcome = NoRun

\* no call of dump() yet
NoDump ==
  [some |-> FALSE, exc |-> "", text |-> NoNode, frozen |-> FALSE,
   pending |-> FALSE]

Top == stack[Len(stack)]
Pop(stk) == SubSeq(stk, 1, Len(stk) - 1)
SetTop(stk, fr) == [stk EXCEPT ![Len(stk)] = fr]

\* list.append on the state_generators of Loader ld
Enqueue(lds, ld, gen) ==
  [lds EXCEPT ![ld].state_generators = Append(@, gen)]

(***************************************************************************)
(* Loader.getContext, Loader.interpolate                                   *)
(***************************************************************************)
\* the dict a `variables` field refers to
VarDict(dcts, v) == IF v.k = "dict" THEN dcts[v.id] ELSE EmptyDict

\* `if d is not None: ctx.update(d)`
UpdateIf(present, ctx, d) == IF present THEN Update(ctx, d) ELSE ctx

\* the `variables` field of the root of Loader ld, None when ld is the root
RootField(lds, ld) ==
  IF lds[ld].root # 0 THEN lds[lds[ld].root].variables ELSE NoneVal

getContext(lds, dcts, ld, overrides) ==
  UpdateIf(overrides.some,
    UpdateIf(lds[ld].overrides.some,
      UpdateIf(RootField(lds, ld).k # "none",
        UpdateIf(lds[ld].variables.k # "none",
          UpdateIf(lds[ld].defaults.some, EmptyDict, lds[ld].defaults.d),
          VarDict(dcts, lds[ld].variables)),
        VarDict(dcts, RootField(lds, ld))),
      lds[ld].overrides.d),
    overrides.d)

\* Loader.interpolate, lines 114-116: KeyError becomes OnlTemplateError
templateError(r, val) ==
  IF r.exc = "KeyError" THEN Exc("OnlTemplateError", val) ELSE r

interpolate(lds, dcts, lzs, ld, val) ==
  templateError(Substitute(val, 1, getContext(lds, dcts, ld, None), lzs, <<>>),
                val)

(***************************************************************************)
(* StringMixin.from_yaml and LazyTemplate.start up to its first yield:     *)
(* the value that stands in the tree and the generator left to resume.     *)
(***************************************************************************)
\* LazyTemplate.start, lines 237-251, with r the outcome of line 233
startYield(r, lzs, ld, val, directive) ==
  IF r.exc = "" THEN
    [exc |-> "", arg |-> <<>>, value |-> StrVal(r.out), lzs |-> lzs,
     gen |-> StartGen(0)]
  ELSE IF r.exc = "OnlTemplateError" THEN
    [exc |-> "", arg |-> <<>>, value |-> LazyVal(Len(lzs) + 1),
     lzs |-> Append(lzs, NewLazy(ld, val, directive)),
     gen |-> StartGen(Len(lzs) + 1)]
  ELSE
    [exc |-> r.exc, arg |-> r.arg, value |-> NoneVal, lzs |-> lzs,
     gen |-> StartGen(0)]

start(lds, dcts, lzs, ld, val, directive) ==
  startYield(interpolate(lds, dcts, lzs, ld, val), lzs, ld, val, directive)

\* the str content of a value: a LazyString is a str holding UNDEFINED
Content(v) == IF v.k = "lazy" THEN UNDEFINED ELSE v.s

(***************************************************************************)
(* Loader.construct_document._scan                                         *)
(***************************************************************************)
\* _scan with the test of the root inverted: the root Loader never harvests
_scanChildOnly(lds, dcts, ld, data) ==
  IF lds[ld].root # 0 /\ lds[ld].variables.k = "none"
     /\ VARIABLES_KEY \in DOMAIN dcts[data]
    THEN [lds EXCEPT ![ld].variables = dcts[data][VARIABLES_KEY]]
  ELSE lds

_scan(lds, dcts, ld, data) ==
  IF lds[ld].root = 0 /\ lds[ld].variables.k = "none"
     /\ VARIABLES_KEY \in DOMAIN dcts[data]
    THEN [lds EXCEPT ![ld].variables = dcts[data][VARIABLES_KEY]]
  ELSE IF lds[ld].root # 0 /\ VARIABLES_KEY \in DOMAIN dcts[data]
    THEN Enqueue(lds, lds[ld].root, FnGen)
  ELSE lds

\* the end of one turn of the loop over the generators of a pass: _scan(),
\* then the next generator, or the test of the while loop
NextGenerator(fr) ==
  IF fr.i < Len(fr.gens) THEN [fr EXCEPT !.i = fr.i + 1]
  ELSE [fr EXCEPT !.pc = "while", !.gens = <<>>, !.i = 0]

(***************************************************************************)
(* Initial state: loadf has built the variables and the root Loader, and   *)
(* yaml.load is about to call construct_document.                          *)
(***************************************************************************)
Init ==
  /\ strict \in BOOLEAN
  /\ \E o \in EntryOrders : document = RootDocument(o)
  /\ \E env \in Environments :
       loaders = <<NewLoader(MainName, Some(loadfVariables(env, EmptyDict)),
                             None, 0, 0, EmptyDict)>>
  /\ dicts = <<>>
  /\ lazies = <<>>
  /\ stack = <<DocFrame(1, document, "loadf", 0)>>
  /\ result = Running
  /\ tmpfiles = {}
  /\ tmpcount = 0
  /\ ran = <<>>
  /\ opened = <<>>
  /\ first = NoOutcome
  /\ dumped = NoDump
  /\ NotInstalling

(***************************************************************************)
(* Exceptions.  Nothing between the raise and loadf catches: every frame   *)
(* is unwound, and the finally clause of each ScriptNode.from_yaml that is *)
(* waiting for its yaml.load unlinks its temporary file.                   *)
(***************************************************************************)
Unlinked(stk) == {stk[n].tf : n \in {m \in DOMAIN stk : stk[m].via = "script"}}

Raise(exc, arg, during, tmp) ==
  /\ result' = [status |-> "raised", exc |-> exc, arg |-> arg,
                during |-> during, tree |-> NoneVal]
  /\ stack' = <<>>
  /\ tmpfiles' = tmp \ Unlinked(stack)

InDoc(pc) == stack # <<>> /\ Top.f = "doc" /\ Top.pc = pc
InMap == stack # <<>> /\ Top.f = "map"
Gen == Top.gens[Top.i]

(***************************************************************************)
(* Loader.construct_document                                               *)
(***************************************************************************)
\* line 60: construct_object on the top-level mapping node yields an empty
\* dict and leaves the generator of the mapping on state_generators
ConstructDocument ==
  /\ InDoc("construct")
  /\ dicts' = Append(dicts, EmptyDict)
  /\ loaders' = Enqueue(loaders, Top.ld, MapGen(Top.node, Len(dicts) + 1))
  /\ stack' = SetTop(stack, [Top EXCEPT !.data = Len(dicts) + 1,
                                        !.pc = "while"])
  /\ UNCHANGED <<others, strict, document, lazies, result, tmpfiles, tmpcount,
                 ran, opened>>

\* lines 79-81: a pass takes the list of generators and leaves an empty one
BeginPass ==
  /\ InDoc("while")
  /\ loaders[Top.ld].state_generators # <<>>
  /\ stack' = SetTop(stack, [Top EXCEPT !.pc = "for", !.i = 1,
                               !.gens = loaders[Top.ld].state_generators])
  /\ loaders' = [loaders EXCEPT ![Top.ld].state_generators = <<>>]
  /\ UNCHANGED <<others, strict, document, dicts, lazies, result, tmpfiles, tmpcount,
                 ran, opened>>

\* lines 84-87 on the rest of LazyTemplate.start (lines 253-258)
RunStart ==
  /\ InDoc("for") /\ Gen.g = "start"
  /\ loaders' = _scan(IF Gen.lz = 0 THEN loaders
                      ELSE Enqueue(loaders, lazies[Gen.lz].loader,
                                   DeferGen(Gen.lz)),
                      dicts, Top.ld, Top.data)
  /\ stack' = SetTop(stack, NextGenerator(Top))
  /\ UNCHANGED <<others, strict, document, dicts, lazies, result, tmpfiles,
                 tmpcount, ran, opened>>

\* lines 84-87 on the dummy generator fn() that a child's _scan appended
RunMarker ==
  /\ InDoc("for") /\ Gen.g = "fn"
  /\ loaders' = _scan(loaders, dicts, Top.ld, Top.data)
  /\ stack' = SetTop(stack, NextGenerator(Top))
  /\ UNCHANGED <<others, strict, document, dicts, lazies, result, tmpfiles, tmpcount,
                 ran, opened>>

\* the test of the tries off by one
deferExhaustedEarly(t) == t.tries <= 1

\* LazyTemplate.defer, lines 262-270: no tries left
deferExhausted(t) == t.tries <= 0

\* freezing to the empty string instead of the template
frozenEmpty(t) == <<>>

\* LazyTemplate.defer, line 269: the value a LazyString is frozen to
frozen(t) == t.val

\* a failed retry that is not put on any list
requeueDropped(lds, ld, n) == lds

\* a failed retry that is put on the list of the root and on the Loader's own
requeueTwice(lds, ld, n) ==
  Enqueue(Enqueue(lds, IF lds[ld].root # 0 THEN lds[ld].root ELSE ld,
                  DeferGen(n)),
          ld, DeferGen(n))

\* LazyTemplate.defer, lines 282-288: the retry goes on the list of the root
\* Loader, or on the Loader's own list when it is the root
requeue(lds, ld, n) ==
  Enqueue(lds, IF lds[ld].root # 0 THEN lds[ld].root ELSE ld, DeferGen(n))

\* defer() returns: the generator is exhausted, line 87 runs _scan()
deferReturn(lzs, lds) ==
  /\ lazies' = lzs
  /\ loaders' = _scan(lds, dicts, Top.ld, Top.data)
  /\ stack' = SetTop(stack, NextGenerator(Top))
  /\ UNCHANGED <<result, tmpfiles>>

\* defer() raises
deferRaise(exc, arg, during, lzs) ==
  /\ Raise(exc, arg, during, tmpfiles)
  /\ lazies' = lzs
  /\ UNCHANGED loaders

\* defer() that enqueues the retry of a failed attempt without counting it
deferRetryUncounted(n, t, r, tried) ==
  IF r.exc = "" THEN
    deferReturn([tried EXCEPT ![n].data = r.out, ![n].init = TRUE], loaders)
  ELSE IF r.exc = "OnlTemplateError" THEN
    deferReturn(lazies, requeue(loaders, t.loader, n))
  ELSE deferRaise(r.exc, r.arg, "interpolate", tried)

\* defer() without the `return` of line 277: a successful attempt goes on to
\* count a try and to put the generator on a list again
deferRetryNoReturn(n, t, r, tried) ==
  IF r.exc = "" THEN
    deferReturn([tried EXCEPT ![n].data = r.out, ![n].init = TRUE,
                              ![n].tries = @ - 1],
                requeue(loaders, t.loader, n))
  ELSE IF r.exc = "OnlTemplateError" THEN
    deferReturn([tried EXCEPT ![n].tries = @ - 1],
                requeue(loaders, t.loader, n))
  ELSE deferRaise(r.exc, r.arg, "interpolate", tried)

\* LazyTemplate.defer, lines 275-289, with r the outcome of line 276
deferRetry(n, t, r, tried) ==
  IF r.exc = "" THEN
    deferReturn([tried EXCEPT ![n].data = r.out, ![n].init = TRUE], loaders)
  ELSE IF r.exc = "OnlTemplateError" THEN
    deferReturn([tried EXCEPT ![n].tries = @ - 1],
                requeue(loaders, t.loader, n))
  ELSE deferRaise(r.exc, r.arg, "interpolate", tried)

\* LazyTemplate.defer on LazyTemplate n, whose fields are t
defer(n, t) ==
  IF deferExhausted(t) THEN
    IF strict THEN deferRaise("OnlTemplateError", t.val, "defer", lazies)
    ELSE deferReturn([lazies EXCEPT ![n].data = frozen(t), ![n].init = TRUE],
                     loaders)
  ELSE IF t.init THEN deferRaise("NotImplementedError", t.val, "defer", lazies)
  ELSE \E r \in {interpolate(loaders, dicts, lazies, t.loader, t.val)} :
          deferRetry(n, t, r, [lazies EXCEPT ![n].attempts = @ + 1])

\* lines 84-87 on LazyTemplate.defer (lines 260-289)
RunDefer ==
  /\ InDoc("for") /\ Gen.g = "defer"
  /\ defer(Gen.lz, lazies[Gen.lz])
  /\ UNCHANGED <<others, strict, document, dicts, tmpcount, ran, opened>>

\* lines 84-86 on the generator of a mapping node: construct_yaml_map goes on
\* after its yield and calls construct_mapping
RunMapping ==
  /\ InDoc("for") /\ Gen.g = "map"
  /\ stack' = Append(stack, MapFrame(Top.ld, Gen.node, Gen.data))
  /\ UNCHANGED <<others, strict, document, loaders, dicts, lazies, result,
                 tmpfiles, tmpcount, ran, opened>>

\* lines 89-92 in the root Loader: yaml.load and loadf return the tree
ReturnRoot ==
  /\ InDoc("while")
  /\ loaders[Top.ld].state_generators = <<>>
  /\ Len(stack) = 1
  /\ result' = [Running EXCEPT !.status = "ok", !.tree = DictVal(Top.data)]
  /\ stack' = <<>>
  /\ UNCHANGED <<others, strict, document, loaders, dicts, lazies, tmpfiles,
                 tmpcount, ran, opened>>

\* mapping[key] = value, and on to the next pair
Stored(fr, key, value) ==
  [fr EXCEPT !.mapping = Update(@, key :> value), !.j = @ + 1]

\* lines 89-92 in a child Loader: yaml.load returns to IncludeNode.from_yaml
\* (line 420) or to ScriptNode.from_yaml (lines 364-366), whose result
\* construct_mapping stores under the pending key
ReturnChild ==
  /\ InDoc("while")
  /\ loaders[Top.ld].state_generators = <<>>
  /\ Len(stack) > 1
  /\ stack' = SetTop(Pop(stack),
                     Stored(stack[Len(stack) - 1], stack[Len(stack) - 1].key,
                            DictVal(Top.data)))
  /\ tmpfiles' = IF Top.via = "script" THEN tmpfiles \ {Top.tf} ELSE tmpfiles
  /\ UNCHANGED <<others, strict, document, loaders, dicts, lazies, result,
                 tmpcount, ran, opened>>

(***************************************************************************)
(* construct_mapping: one action per key/value pair, by the tag of the     *)
(* value node.  The key is constructed first, by StringNode.from_yaml.     *)
(***************************************************************************)
CurPair == Top.node.pairs[Top.j]

InPair(tag) == InMap /\ Top.j <= Len(Top.node.pairs) /\ CurPair[2].tag = tag

\* construct_object on a key node, with k what start() yields: the str that
\* keys the dict (a LazyString hashes and compares as the str it holds), and
\* the generator left on the list
keyed(k, lds, ld) ==
  [exc |-> k.exc, arg |-> k.arg, key |-> Content(k.value), lzs |-> k.lzs,
   lds |-> IF k.exc = "" THEN Enqueue(lds, ld, k.gen) ELSE lds]

mapKey ==
  keyed(start(loaders, dicts, lazies, Top.ld, CurPair[1].str, FALSE),
        loaders, Top.ld)

\* an exception inside construct_mapping
mapRaise(exc, arg, during, tmp, lds, lzs) ==
  /\ Raise(exc, arg, during, tmp)
  /\ loaders' = lds
  /\ lazies' = lzs

\* the value of the pair is stored and construct_mapping goes on
mapStore(key, value, lds, lzs) ==
  /\ loaders' = lds
  /\ lazies' = lzs
  /\ stack' = SetTop(stack, Stored(Top, key, value))
  /\ UNCHANGED <<result, tmpfiles>>

\* a scalar value, with v what start() yields for it
scalarValue(k, v) ==
  IF v.exc # ""
    THEN mapRaise(v.exc, v.arg, "interpolate", tmpfiles, k.lds, k.lzs)
    ELSE mapStore(k.key, v.value, Enqueue(k.lds, Top.ld, v.gen), v.lzs)

scalarPair(k) ==
  IF k.exc # ""
    THEN mapRaise(k.exc, k.arg, "interpolate", tmpfiles, loaders, lazies)
    ELSE \E v \in {start(k.lds, dicts, k.lzs, Top.ld, CurPair[2].str, FALSE)} :
            scalarValue(k, v)

\* a scalar value: StringNode.from_yaml, LazyTemplate.start lines 227-251
MapScalar ==
  /\ InPair("str")
  /\ \E k \in {mapKey} : scalarPair(k)
  /\ UNCHANGED <<others, strict, document, dicts, tmpcount, ran, opened>>

mappingPair(k, d) ==
  IF k.exc # "" THEN
    /\ mapRaise(k.exc, k.arg, "interpolate", tmpfiles, loaders, lazies)
    /\ UNCHANGED dicts
  ELSE
    /\ dicts' = Append(dicts, EmptyDict)
    /\ mapStore(k.key, DictVal(d), Enqueue(k.lds, Top.ld, MapGen(CurPair[2], d)),
                k.lzs)

\* a mapping value: construct_yaml_map yields an empty dict, its generator
\* goes on the list and runs in a later pass
MapMapping ==
  /\ InPair("map")
  /\ \E k \in {mapKey} : mappingPair(k, Len(dicts) + 1)
  /\ UNCHANGED <<others, strict, document, tmpcount, ran, opened>>

\* TemplateMixin.getString, lines 339-344, with v what start() yields: the
\* generator itself is dropped.  A LazyString is a basestring.
firstItem(v, val) ==
  IF v.exc = "" /\ v.value.k \notin {"str", "lazy"}
    THEN [v EXCEPT !.exc = "OnlYamlError", !.arg = val]
    ELSE v

getString(lds, dcts, lzs, ld, val) ==
  firstItem(start(lds, dcts, lzs, ld, val, TRUE), val)

\* IncludeNode.from_yaml, lines 389-393: one key=value option, parted as p
includeOption(options, n, variables, p) ==
  IF p[2] # <<>>
    THEN [exc |-> "", arg |-> <<>>,
          variables |-> Update(variables, p[1] :> StrVal(p[3]))]
    ELSE [exc |-> "OnlYamlError", arg |-> options[n], variables |-> variables]

\* IncludeNode.from_yaml, lines 388-393: the key=value options
RECURSIVE includeOptions(_, _, _)
includeOptions(options, n, acc) ==
  IF n > Len(options) \/ acc.exc # "" THEN acc
  ELSE includeOptions(options, n + 1,
         includeOption(options, n, acc.variables, Partition(options[n])))

\* subLoader that leaves the overrides of the call site out of the context
subLoaderNoOverrides(lds, dcts, ld, name, overrides) ==
  NewLoader(name, None, Some(getContext(lds, dcts, ld, None)),
            IF lds[ld].root # 0 THEN lds[ld].root ELSE ld,
            ld, IF overrides.some THEN overrides.d ELSE EmptyDict)

\* Loader.subLoader: the child Loader made by the factory
subLoader(lds, dcts, ld, name, overrides) ==
  NewLoader(name, None, Some(getContext(lds, dcts, ld, overrides)),
            IF lds[ld].root # 0 THEN lds[ld].root ELSE ld,
            ld, IF overrides.some THEN overrides.d ELSE EmptyDict)

\* os.path.exists on the path of an include, relative to the including file
Exists(fname) == fname \in DOMAIN IncludeFiles

\* yaml.load called by a directive: a child Loader and its construct_document
childLoad(key, lds, lzs, child, node, via, tf) ==
  /\ lazies' = lzs
  /\ loaders' = Append(lds, child)
  /\ stack' = Append(SetTop(stack, [Top EXCEPT !.key = key]),
                     DocFrame(Len(lds) + 1, node, via, tf))
  /\ UNCHANGED result

includeRaise(exc, arg, during, lds, lzs) ==
  /\ mapRaise(exc, arg, during, tmpfiles, lds, lzs)
  /\ UNCHANGED opened

\* IncludeNode.from_yaml, lines 412-420
includeFile(k, v, fname, opts) ==
  IF opts.exc # "" THEN includeRaise(opts.exc, opts.arg, "include", k.lds, v.lzs)
  ELSE IF ~Exists(fname)
    THEN includeRaise("OnlYamlError", fname, "include", k.lds, v.lzs)
  ELSE
    /\ opened' = Append(opened, fname)
    /\ childLoad(k.key, k.lds, v.lzs,
                 subLoader(k.lds, dicts, Top.ld, fname, Some(opts.variables)),
                 IncludeFiles[fname], "include", 0)
    /\ UNCHANGED tmpfiles

\* IncludeNode.from_yaml, lines 384-393
includeFields(k, v, fields) ==
  IF fields = <<>> THEN includeRaise("IndexError", <<>>, "include", k.lds, v.lzs)
  ELSE \E opts \in {includeOptions(Tail(fields), 1,
                        [exc |-> "", arg |-> <<>>, variables |-> EmptyDict])} :
          includeFile(k, v, fields[1], opts)

\* IncludeNode.from_yaml, line 383
includeDirective(k, v) ==
  IF v.exc # "" THEN includeRaise(v.exc, v.arg, "interpolate", k.lds, k.lzs)
  ELSE \E fields \in {Split(Content(v.value))} : includeFields(k, v, fields)

\* IncludeNode.from_yaml, lines 379-410: the form of the node
includePair(k, node) ==
  IF k.exc # ""
    THEN includeRaise(k.exc, k.arg, "interpolate", loaders, lazies)
  ELSE IF node.kind = "mapping" THEN
    IF node.pairs # <<>>
      THEN includeRaise("TypeError", <<>>, "include", k.lds, k.lzs)
      ELSE includeRaise("UnboundLocalError", <<>>, "include", k.lds, k.lzs)
  ELSE \E v \in {getString(k.lds, dicts, k.lzs, Top.ld, node.str)} :
          includeDirective(k, v)

\* IncludeNode.from_yaml up to the call of yaml.load (lines 379-420)
MapInclude ==
  /\ InPair("!include")
  /\ \E k \in {mapKey} : includePair(k, CurPair[2])
  /\ UNCHANGED <<others, strict, document, dicts, tmpcount, ran>>

\* the name given to the Loader of a script's output: the temporary file
TmpName == <<"t","m","p">>

scriptRaise(exc, arg, tmp, lds, lzs, count, cmds) ==
  /\ mapRaise(exc, arg, "script", tmp, lds, lzs)
  /\ tmpcount' = count
  /\ ran' = cmds

\* ScriptNode.from_yaml, lines 360-366, with sh what the shell did
scriptOutput(k, v, tf, cmd, sh) ==
  IF sh.status # 0 THEN
    scriptRaise("OnlYamlError", cmd, tmpfiles \cup {tf}, k.lds, v.lzs, tf,
                Append(ran, cmd))
  ELSE IF ~sh.parses THEN
    scriptRaise("YAMLError", cmd, tmpfiles, k.lds, v.lzs, tf, Append(ran, cmd))
  ELSE
    /\ tmpcount' = tf
    /\ ran' = Append(ran, cmd)
    /\ tmpfiles' = tmpfiles \cup {tf}
    /\ childLoad(k.key, k.lds, v.lzs,
                 subLoader(k.lds, dicts, Top.ld, TmpName, None),
                 sh.doc, "script", tf)

\* ScriptNode.from_yaml, line 360: the command line is formatted
scriptCommand(k, v, tf, cmd) ==
  IF cmd.exc # ""
    THEN scriptRaise(cmd.exc, cmd.arg, tmpfiles, k.lds, v.lzs, tf, ran)
    ELSE scriptOutput(k, v, tf, cmd.out, Shell(cmd.out))

\* ScriptNode.from_yaml, lines 357-359
scriptDirective(k, v) ==
  IF v.exc # "" THEN
    /\ mapRaise(v.exc, v.arg, "interpolate", tmpfiles, k.lds, k.lzs)
    /\ UNCHANGED <<tmpcount, ran>>
  ELSE \E cmd \in {Format(v.value, v.lzs)} :
          scriptCommand(k, v, tmpcount + 1, cmd)

scriptPair(k) ==
  IF k.exc # "" THEN
    /\ mapRaise(k.exc, k.arg, "interpolate", tmpfiles, loaders, lazies)
    /\ UNCHANGED <<tmpcount, ran>>
  ELSE \E v \in {getString(k.lds, dicts, k.lzs, Top.ld, CurPair[2].str)} :
          scriptDirective(k, v)

\* ScriptNode.from_yaml up to the call of yaml.load (lines 357-364)
MapScript ==
  /\ InPair("!script")
  /\ \E k \in {mapKey} : scriptPair(k)
  /\ UNCHANGED <<others, strict, document, dicts, opened>>

\* construct_yaml_map after construct_mapping, with dcts the dicts after
\* data.update(value); the generator is exhausted, so line 87 runs _scan()
mapFinish(doc, dcts) ==
  /\ dicts' = dcts
  /\ loaders' = _scan(loaders, dcts, doc.ld, doc.data)
  /\ stack' = SetTop(Pop(stack), NextGenerator(doc))

MapFinish ==
  /\ InMap /\ Top.j > Len(Top.node.pairs)
  /\ mapFinish(stack[Len(stack) - 1],
               [dicts EXCEPT ![Top.data] = Update(@, Top.mapping)])
  /\ UNCHANGED <<others, strict, document, lazies, result, tmpfiles, tmpcount,
                 ran, opened>>

Next ==
  \/ ConstructDocument
  \/ BeginPass
  \/ RunStart
  \/ RunMarker
  \/ RunDefer
  \/ RunMapping
  \/ MapScalar
  \/ MapMapping
  \/ MapInclude
  \/ MapScript
  \/ MapFinish
  \/ ReturnChild
  \/ ReturnRoot

Spec == Init /\ [][Next]_vars

\* one thread runs the load and the interpreter does not stop between steps
SpecLive == Spec /\ WF_vars(Next)

(***************************************************************************)
(* A second call of loadf, on a file that differs from the first only in   *)
(* the order of the keys of its top-level mapping.                         *)
(***************************************************************************)
Done == result.status # "running"
Returned == result.status = "ok"

NoTree == [k |-> "none", s |-> <<>>, d |-> EmptyDict]

\* the tree as Dumper.represent_lazy_string shows it: a LazyString is its data
RECURSIVE RenderTree(_)
RenderTree(v) ==
  IF v.k = "dict" THEN
    [k |-> "dict", s |-> <<>>,
     d |-> [key \in DOMAIN dicts[v.id] |-> RenderTree(dicts[v.id][key])]]
  ELSE IF v.k = "lazy" THEN
    IF lazies[v.id].init
      THEN [k |-> "str", s |-> lazies[v.id].data, d |-> EmptyDict]
      ELSE [k |-> "pending", s |-> lazies[v.id].val, d |-> EmptyDict]
  ELSE IF v.k = "str" THEN [k |-> "str", s |-> v.s, d |-> EmptyDict]
  ELSE NoTree

Outcome ==
  IF Returned THEN [status |-> "ok", tree |-> RenderTree(result.tree)]
  ELSE [status |-> "raised", tree |-> NoTree]

Range(f) == {f[p] : p \in DOMAIN f}

\* the orders of n keys other than the given one
Reorderings(n) ==
  {o \in [1..n -> 1..n] : Range(o) = 1..n /\ \E p \in 1..n : o[p] # p}

LoadPermuted ==
  /\ Done
  /\ first.status = "none"
  /\ \E o \in Reorderings(Len(document.pairs)) :
       document' = Mapping([p \in DOMAIN document.pairs |->
                              document.pairs[o[p]]])
  /\ first' = Outcome
  /\ loaders' = <<NewLoader(MainName, loaders[1].defaults, None, 0, 0,
                            EmptyDict)>>
  /\ dicts' = <<>>
  /\ lazies' = <<>>
  /\ stack' = <<DocFrame(1, document', "loadf", 0)>>
  /\ result' = Running
  /\ UNCHANGED <<strict, tmpfiles, tmpcount, ran, opened, dumped, installer>>

NextOrder == Next \/ LoadPermuted

SpecOrder == Init /\ [][NextOrder]_vars

(***************************************************************************)
(* The tree and the generators, as the properties look at them             *)
(***************************************************************************)
\* the dict that loadf returned
RootTree == dicts[result.tree.id]

\* the top-level mapping of the file has this key/value pair
HasTop(pair) == \E p \in DOMAIN document.pairs : document.pairs[p] = pair

\* the position of a key in the top-level mapping of the file
KeyIndex(key) ==
  CHOOSE p \in DOMAIN document.pairs : KeyOf(document.pairs[p]) = key

\* the LazyStrings reachable in a tree
RECURSIVE LazyIds(_)
LazyIds(v) ==
  IF v.k = "lazy" THEN {v.id}
  ELSE IF v.k = "dict"
    THEN UNION {LazyIds(dicts[v.id][key]) : key \in DOMAIN dicts[v.id]}
  ELSE {}

\* the LazyTemplates that have a generator on a list or in a running pass
Waiting ==
  UNION ({Range(loaders[L].state_generators) : L \in DOMAIN loaders}
         \cup {Range(stack[n].gens) : n \in DOMAIN stack})

WaitingLazies == {gen.lz : gen \in Waiting} \ {0}

(***************************************************************************)
(* dump(): the representer of yaml.dumper.Dumper with the two representers *)
(* of lines 297-306.  The text is given as the node tree that the composer *)
(* reads back from it: the emitter writes a str scalar so that it reads    *)
(* back as the same str, and a mapping with its keys sorted.               *)
(***************************************************************************)
\* the characters of the model in the order of their codes
Alphabet ==
  <<" ","$","/","0","1","2","3","4","5","6","7","8","9","=",
    "A","B","C","D","E","F","G","H","I","J","K","L","M","N","O","P","Q","R",
    "S","T","U","V","W","X","Y","Z","_",
    "a","b","c","d","e","f","g","h","i","j","k","l","m","n","o","p","q","r",
    "s","t","u","v","w","x","y","z","{","}">>

Ord(ch) == CHOOSE p \in DOMAIN Alphabet : Alphabet[p] = ch

\* str.__lt__
RECURSIVE Less(_, _)
Less(s, t) ==
  IF t = <<>> THEN FALSE
  ELSE IF s = <<>> THEN TRUE
  ELSE IF Head(s) # Head(t) THEN Ord(Head(s)) < Ord(Head(t))
  ELSE Less(Tail(s), Tail(t))

\* sorted() on the keys of a dict
RECURSIVE Sorted(_)
Sorted(keys) ==
  IF keys = {} THEN <<>>
  ELSE LET least == CHOOSE x \in keys : \A y \in keys \ {x} : Less(x, y)
       IN  <<least>> \o Sorted(keys \ {least})

Represented(node) == [exc |-> "", node |-> node]
NotRepresented(cls) == [exc |-> cls, node |-> NoNode]

\* a representer that writes the str a LazyString is, whatever its data
represent_lazy_content(lz) == Represented(Scalar(UNDEFINED))

\* Dumper.represent_lazy_string, lines 297-299: represent_str(data.data), and
\* represent_str starts with unicode(data, 'ascii'), a TypeError for None
represent_lazy_string(lz) ==
  IF ~lz.init THEN NotRepresented("TypeError") ELSE Represented(Scalar(lz.data))

\* the first failure among the represented items, if there is one
RECURSIVE FirstFailure(_, _)
FirstFailure(items, p) ==
  IF p > Len(items) THEN ""
  ELSE IF items[p].exc # "" THEN items[p].exc
  ELSE FirstFailure(items, p + 1)

\* represent_mapping over the sorted keys, with the represented values
MappingOf(keys, items) ==
  IF FirstFailure(items, 1) # "" THEN NotRepresented(FirstFailure(items, 1))
  ELSE Represented(Mapping([p \in DOMAIN keys |->
                              <<Scalar(keys[p]), items[p].node>>]))

\* Representer.represent_data on a value of the tree
RECURSIVE represent_data(_, _, _)
represent_data(dcts, lzs, v) ==
  IF v.k = "dict" THEN
    MappingOf(Sorted(DOMAIN dcts[v.id]),
              [p \in 1..Cardinality(DOMAIN dcts[v.id]) |->
                 represent_data(dcts, lzs,
                                dcts[v.id][Sorted(DOMAIN dcts[v.id])[p]])])
  ELSE IF v.k = "lazy" THEN represent_lazy_string(lzs[v.id])
  ELSE IF v.k = "str" THEN Represented(Scalar(v.s))
  ELSE NotRepresented("RepresenterError")

\* dump, line 447
dump(dcts, lzs, v) == represent_data(dcts, lzs, v)

\* a LazyString that defer() froze to its template
Frozen(lz) == lz.init /\ lz.tries = 0

(***************************************************************************)
(* dump(loadf(f)) written to a file, and loadf of that file with the same  *)
(* environment.                                                            *)
(***************************************************************************)
dumpedAs(d, anyFrozen, anyPending) ==
  [some |-> TRUE, exc |-> d.exc, text |-> d.node, frozen |-> anyFrozen,
   pending |-> anyPending]

LoadDumped ==
  /\ Done /\ Returned
  /\ first.status = "none"
  /\ \E d \in {dump(dicts, lazies, result.tree)} :
       /\ d.exc = ""
       /\ dumped' = dumpedAs(d, \E n \in LazyIds(result.tree) :
                                   Frozen(lazies[n]), FALSE)
       /\ document' = d.node
  /\ first' = Outcome
  /\ loaders' = <<NewLoader(MainName, loaders[1].defaults, None, 0, 0,
                            EmptyDict)>>
  /\ dicts' = <<>>
  /\ lazies' = <<>>
  /\ stack' = <<DocFrame(1, document', "loadf", 0)>>
  /\ result' = Running
  /\ UNCHANGED <<strict, tmpfiles, tmpcount, ran, opened, installer>>

NextDump == Next \/ LoadDumped

SpecDump == Init /\ [][NextDump]_vars

(***************************************************************************)
(* dump() of a dict that a load has built, after the load has returned or  *)
(* raised: a load that raised leaves dicts with LazyStrings that never got *)
(* their value.                                                            *)
(***************************************************************************)
\* the LazyStrings of a tree whose data is still None
Unassigned(v) == {n \in LazyIds(v) : ~lazies[n].init}

DumpTree ==
  /\ Done
  /\ ~dumped.some
  /\ \E d \in DOMAIN dicts :
       dumped' = dumpedAs(dump(dicts, lazies, DictVal(d)), FALSE,
                          Unassigned(DictVal(d)) # {})
  /\ UNCHANGED <<strict, document, loaders, dicts, lazies, stack, result,
                 tmpfiles, tmpcount, ran, opened, first, installer>>

NextSerialize == Next \/ DumpTree

SpecSerialize == Init /\ [][NextSerialize]_vars

(***************************************************************************)
(* Properties                                                              *)
(***************************************************************************)
(***************************************************************************)
(* C1  Forward reference.  A root document with the scalar `a: $b` and a   *)
(* top-level `variables` mapping that binds b to the literal X, where b is *)
(* bound nowhere else, loads to a tree in which a is X, with `variables`   *)
(* before or after a: the first attempt fails, a deferred retry resolves   *)
(* the scalar with tries to spare, and load does not raise for it.         *)
(***************************************************************************)
ForwardReferenceCase ==
  /\ HasTop(Pair(<<"a">>, Scalar(<<"$","b">>)))
  /\ HasTop(EntryPool[2])
  /\ <<"b">> \notin DOMAIN loaders[1].defaults.d

C2_OrderIndependence ==
  (Done /\ first.status # "none") => Outcome = first

(***************************************************************************)
(* C3  Retry exhaustion count.  A step of defer() exhausts a template when *)
(* it raises the OnlTemplateError of line 265, or freezes the LazyString   *)
(* (line 269) without another attempt.  As claimed: the template has then  *)
(* been tried 5 times in all.                                              *)
(***************************************************************************)
Exhausted(n) ==
  /\ lazies[n].tries = 0
  /\ \/ lazies[n].init
     \/ /\ result.status = "raised"
        /\ result.during = "defer"
        /\ result.arg = lazies[n].val

ExhaustionStep ==
  /\ InDoc("for") /\ Gen.g = "defer"
  /\ \/ /\ result'.status = "raised"
        /\ result'.during = "defer"
        /\ result'.exc = "OnlTemplateError"
     \/ /\ ~lazies[Gen.lz].init
        /\ lazies'[Gen.lz].init
        /\ lazies'[Gen.lz].attempts = lazies[Gen.lz].attempts

C3_Bounded ==
  \A n \in DOMAIN lazies :
     /\ lazies[n].attempts <= 6
     /\ lazies[n].tries \in 0..5
     /\ (~lazies[n].init /\ lazies[n].tries = 0) => lazies[n].attempts = 6

NeverDefined == <<"$","z">>

C5_TemporaryFileRemoved ==
  tmpfiles \subseteq Unlinked(stack)

(***************************************************************************)
(* C6  Include override precedence.  In a Loader made for                  *)
(* `!include file key=value`, key resolves to value whatever else binds    *)
(* key, and the scalar `$key` of the included document ends as value: with *)
(* or without `key` in the included file's own `variables`, in the root's  *)
(* `variables` and in the defaults.                                        *)
(***************************************************************************)
C6_OverridePrecedence ==
  /\ \A L \in DOMAIN loaders : \A n \in DOMAIN loaders[L].callsite :
        LET ctx == getContext(loaders, dicts, L, None)
        IN  n \in DOMAIN ctx /\ ctx[n] = loaders[L].callsite[n]
  /\ Returned =>
        \A key \in {<<"i">>, <<"j">>} :
           key \in DOMAIN RootTree =>
             RenderTree(RootTree[key]).d[<<"x">>].s = <<"O">>

C6_Witness ==
  /\ Returned
  /\ <<"j">> \in DOMAIN RootTree
  /\ RenderTree(RootTree[<<"j">>]).d[<<"x">>].s = <<"O">>
  /\ <<"k">> \in DOMAIN loaders[1].defaults.d
  /\ loaders[1].variables.k = "dict"
  /\ <<"k">> \in DOMAIN dicts[loaders[1].variables.id]

(***************************************************************************)
(* C7  Scope resolution order.  In every Loader and at every point of a    *)
(* load, a name resolves to the override of the call site if there is one, *)
(* else to the document variable the root has harvested if there is one,   *)
(* else to the inherited default.                                          *)
(***************************************************************************)
RECURSIVE Callsites(_)
Callsites(L) ==
  IF L = 0 THEN {}
  ELSE (DOMAIN loaders[L].callsite) \cup Callsites(loaders[L].parent)

RootVariables == VarDict(dicts, loaders[1].variables)
RootDefaults == loaders[1].defaults.d

C7_ScopeOrder ==
  \A L \in DOMAIN loaders :
     LET ctx == getContext(loaders, dicts, L, None)
     IN  /\ \A n \in DOMAIN loaders[L].callsite :
              n \in DOMAIN ctx /\ ctx[n] = loaders[L].callsite[n]
         /\ \A n \in (DOMAIN RootVariables) \ Callsites(L) :
              n \in DOMAIN ctx /\ ctx[n] = RootVariables[n]
         /\ \A n \in (DOMAIN RootDefaults)
                       \ (Callsites(L) \cup DOMAIN RootVariables) :
              n \in DOMAIN ctx /\ ctx[n] = RootDefaults[n]

(***************************************************************************)
(* C8  No partial result.  When load returns a tree, every LazyString      *)
(* reachable in it has its value, whichever Loader made it, and no         *)
(* generator is left on the list of any Loader.                            *)
(***************************************************************************)
C8_NoPartialResult ==
  Returned =>
    /\ \A n \in LazyIds(result.tree) : lazies[n].init
    /\ \A L \in DOMAIN loaders : loaders[L].state_generators = <<>>
    /\ \A n \in DOMAIN lazies : ~lazies[n].directive

C8_Witness ==
  /\ Returned
  /\ \E n \in LazyIds(result.tree) :
        /\ lazies[n].loader # 1
        /\ lazies[n].init
        /\ lazies[n].tries < DefaultTries
        /\ lazies[n].data # lazies[n].val

(***************************************************************************)
(* C9  Typed failures only.  A failure inside an interpolation attempt     *)
(* becomes a retry or leaves load as OnlYamlError or OnlTemplateError.     *)
(***************************************************************************)
C9_TypedFailuresOnly ==
  (result.status = "raised" /\ result.during = "interpolate") =>
     result.exc \in {"OnlYamlError", "OnlTemplateError"}

(***************************************************************************)
(* C10  Directives are never deferred.  When the argument of an !include   *)
(* or !script is not interpolated at the first attempt, the same step      *)
(* makes load fail, runs no command and opens no file, and no generator of *)
(* that argument is ever on a list: also when the `variables` of the       *)
(* document bind the missing name.                                         *)
(***************************************************************************)
DirectiveArguments == {n \in DOMAIN lazies : lazies[n].directive}

C10_State ==
  /\ DirectiveArguments # {} => result.status = "raised"
  /\ DirectiveArguments \cap WaitingLazies = {}

C10_Step ==
  (\E n \in DOMAIN lazies' : n \notin DOMAIN lazies /\ lazies'[n].directive)
    => /\ result'.status = "raised"
       /\ ran' = ran
       /\ opened' = opened

C10_DirectivesNeverDeferred == []C10_State /\ [][C10_Step]_vars

C10_Witness ==
  /\ result.status = "raised"
  /\ \E n \in DirectiveArguments : lazies[n].val = <<"$","b">>
  /\ HasTop(EntryPool[2])
  /\ ran = <<>>
  /\ opened = <<>>

(***************************************************************************)
(* C11  Termination.  No file of the model includes itself and every       *)
(* command exits.  Every load ends: loadf returns or raises.  Until then   *)
(* no LazyTemplate has a negative number of tries, none has two generators *)
(* waiting, and one that was frozen or resolved has none.                  *)
(***************************************************************************)
\* the generators that wait on a list or in the rest of a running pass
RECURSIVE Count(_, _)
Count(q, gen) ==
  IF q = <<>> THEN 0
  ELSE (IF Head(q) = gen THEN 1 ELSE 0) + Count(Tail(q), gen)

RECURSIVE Sum(_, _)
Sum(f, S) ==
  IF S = {} THEN 0
  ELSE LET x == CHOOSE y \in S : TRUE IN f[x] + Sum(f, S \ {x})

\* the generators of a pass that have not run yet
Pending(fr) ==
  IF fr.f = "doc" /\ fr.pc = "for" THEN SubSeq(fr.gens, fr.i + 1, Len(fr.gens))
  ELSE <<>>

Queued(gen) ==
  Sum([L \in DOMAIN loaders |-> Count(loaders[L].state_generators, gen)],
      DOMAIN loaders)
  + Sum([n \in DOMAIN stack |-> Count(Pending(stack[n]), gen)], DOMAIN stack)

C11_Budget ==
  \A n \in DOMAIN lazies :
     /\ lazies[n].tries >= 0
     /\ Queued(DeferGen(n)) + Queued(StartGen(n)) <= 1
     /\ (result.status = "running" /\ lazies[n].init) =>
           Queued(DeferGen(n)) = 0

C11_Termination == <>Done /\ []C11_Budget

\* a load that ended after a template ran out of tries in an included file
\* whose `variables` made the root scan again
C11_Witness ==
  /\ Done
  /\ \E n \in DOMAIN lazies : lazies[n].tries = 0 /\ lazies[n].loader # 1
  /\ \E L \in DOMAIN loaders :
        L # 1 /\ loaders[L].name = <<"c","2">>

(***************************************************************************)
(* C12  Round trip.  The tree of a load that left no template unresolved   *)
(* (none pending, none frozen to its template) is dumped, and the text is  *)
(* loaded with the same environment: that load returns, its tree shows the *)
(* same as the first, and dumping it gives the same text.                  *)
(***************************************************************************)
C12_RoundTrip ==
  (Done /\ dumped.some /\ ~dumped.frozen) =>
     /\ Returned
     /\ Outcome = first
     /\ dump(dicts, lazies, result.tree) = Represented(document)

(***************************************************************************)
(* C13  Both forms of !include.  `f: !include {=: c1, k: O}` loads c1 with *)
(* k bound to O as `i: !include "c1 k=O"` does: a document made of these   *)
(* directives loads, and f and i come out as the same tree.                *)
(***************************************************************************)
MappingForm == EntryPool[18]
StringForm == EntryPool[5]

C13_IncludeForms ==
  (Done /\ HasTop(MappingForm)
        /\ \A p \in DOMAIN document.pairs :
              document.pairs[p] \in {MappingForm, StringForm}) =>
     /\ Returned
     /\ RenderTree(RootTree[<<"f">>]).d[<<"x">>].s = <<"O">>
     /\ HasTop(StringForm) =>
          RenderTree(RootTree[<<"f">>]) = RenderTree(RootTree[<<"i">>])

(***************************************************************************)
(* C14  Serializer contract.  dump() of a tree that holds a LazyString     *)
(* whose data was never assigned raises and gives no text, for every dict  *)
(* at every point of a load; dump() of a tree without one gives text.      *)
(***************************************************************************)
C14_DumpUnassignedFails ==
  /\ \A d \in DOMAIN dicts :
        IF Unassigned(DictVal(d)) # {}
          THEN dump(dicts, lazies, DictVal(d)) = NotRepresented("TypeError")
          ELSE dump(dicts, lazies, DictVal(d)).exc = ""
  /\ (dumped.some /\ dumped.pending) =>
        dumped.exc = "TypeError" /\ dumped.text = NoNode
  /\ (dumped.some /\ ~dumped.pending) => dumped.exc = ""

\* dump() has failed on the tree that a failed load left behind
C14_Witness ==
  /\ dumped.some /\ dumped.pending
  /\ dumped.exc = "TypeError"
  /\ result.status = "raised"

(***************************************************************************)
(* C15  Single assignment.  A LazyString that has its data, from a retry   *)
(* that succeeded or from freezing, keeps it in every later step of every  *)
(* Loader, and stays assigned.  No generator of its LazyTemplate is left   *)
(* on a list, so no later step even runs on it: the guard of line 272      *)
(* never raises.                                                           *)
(***************************************************************************)
C15_State ==
  /\ \A n \in DOMAIN lazies : lazies[n].init => Queued(DeferGen(n)) = 0
  /\ result.exc # "NotImplementedError"

C15_Step ==
  \A n \in DOMAIN lazies :
     lazies[n].init =>
       /\ n \in DOMAIN lazies'
       /\ lazies'[n].init
       /\ lazies'[n].data = lazies[n].data

C15_SingleAssignment == []C15_State /\ [][C15_Step]_vars

\* a LazyString has its data while generators of other templates still wait
C15_Witness ==
  /\ result.status = "running"
  /\ \E n \in DOMAIN lazies : lazies[n].init /\ lazies[n].data # lazies[n].val
  /\ \E m \in WaitingLazies : ~lazies[m].init

(***************************************************************************)
(* C16  Child Loaders do not harvest and do not write into ancestors.  A   *)
(* Loader made for an include or a script never has a `variables` field of *)
(* its own, also when its document has the key.  While it runs, the        *)
(* defaults, overrides and `variables` of every other Loader, and the dict *)
(* such a field refers to, stay as they are; the list of the root only     *)
(* grows at its end, by fn() markers and retries of the child's own        *)
(* templates, and the list of no other Loader changes.                     *)
(***************************************************************************)
IsPrefix(q, r) == Len(q) <= Len(r) /\ SubSeq(r, 1, Len(q)) = q

\* what a step has appended to the list of Loader L
Appended(L) ==
  Range(SubSeq(loaders'[L].state_generators,
               Len(loaders[L].state_generators) + 1,
               Len(loaders'[L].state_generators)))

ChildRuns == stack # <<>> /\ loaders[Top.ld].root # 0

C16_State ==
  \A L \in DOMAIN loaders : loaders[L].root # 0 => loaders[L].variables = NoneVal

C16_Step ==
  ChildRuns =>
    \A L \in DOMAIN loaders \ {Top.ld} :
       /\ loaders'[L].defaults = loaders[L].defaults
       /\ loaders'[L].overrides = loaders[L].overrides
       /\ loaders'[L].variables = loaders[L].variables
       /\ loaders[L].variables.k = "dict" =>
             dicts'[loaders[L].variables.id] = dicts[loaders[L].variables.id]
       /\ IF L = loaders[Top.ld].root
            THEN /\ IsPrefix(loaders[L].state_generators,
                             loaders'[L].state_generators)
                 /\ \A gen \in Appended(L) :
                       \/ gen = FnGen
                       \/ gen.g = "defer" /\ lazies'[gen.lz].loader = Top.ld
            ELSE loaders'[L].state_generators = loaders[L].state_generators

C16_ChildrenDoNotHarvest == []C16_State /\ [][C16_Step]_vars

\* an included document with a `variables` key of its own has been built and
\* its Loader has left a marker on the list of the root
C16_Witness ==
  \E L \in DOMAIN loaders :
     /\ loaders[L].root = 1
     /\ loaders[L].name = <<"c","2">>
     /\ FnGen \in Range(loaders[1].state_generators)
     /\ \E n \in DOMAIN stack :
           /\ stack[n].ld = L /\ stack[n].f = "doc" /\ stack[n].data # 0
           /\ VARIABLES_KEY \in DOMAIN dicts[stack[n].data]

(***************************************************************************)
(* C17  The root harvests at most once.  The `variables` field of the root *)
(* Loader is None until the top-level dict has the key `variables`; the    *)
(* scan that first sees the key assigns the field, and from then on every  *)
(* step, the scans made for markers of child Loaders included, leaves the  *)
(* field referring to that same dict.                                      *)
(***************************************************************************)
\* the top-level dict of the root document is the first dict made
RootData == 1

C17_State ==
  IF Len(dicts) >= RootData /\ VARIABLES_KEY \in DOMAIN dicts[RootData]
    THEN loaders[1].variables = dicts[RootData][VARIABLES_KEY]
    ELSE loaders[1].variables = NoneVal

C17_Step ==
  loaders[1].variables # NoneVal =>
     loaders'[1].variables = loaders[1].variables

C17_HarvestOnce == []C17_State /\ [][C17_Step]_vars

\* the root has harvested and now runs the marker of a child Loader
C17_Witness ==
  /\ loaders[1].variables.k = "dict"
  /\ InDoc("for") /\ Top.ld = 1 /\ Gen.g = "fn"

(***************************************************************************)
(* C18  Harvest of a resolved table only.  In the step in which the root   *)
(* Loader takes the `variables` dict, the dict has an entry for every key  *)
(* of the `variables` mapping of the file, and no value of it is a         *)
(* LazyString without its data.                                            *)
(***************************************************************************)
\* the keys that the `variables` mapping of the file has
VariablesKeys ==
  {KeyOf(pair) : pair \in Range(document.pairs[KeyIndex(VARIABLES_KEY)][2].pairs)}

Harvest ==
  loaders[1].variables = NoneVal /\ loaders'[1].variables.k = "dict"

\* the dict that is harvested was made by an earlier step, and the step that
\* harvests it leaves it as it is
C18_HarvestResolved ==
  [][Harvest =>
       /\ dicts'[loaders'[1].variables.id] = dicts[loaders'[1].variables.id]
       /\ DOMAIN dicts[loaders'[1].variables.id] = VariablesKeys
       /\ Unassigned(loaders'[1].variables) = {}]_vars

(***************************************************************************)
(* C19  Retries see the current scope, at any depth of inclusion.  The     *)
(* file c3 has the scalar `x: $b`; it is included by the root (`h`) or by  *)
(* the included file c5 (`g`).  b is bound by the `variables` of the root  *)
(* only, to X directly or through `$c`, so it is discovered after the      *)
(* include was processed: the load returns and x has become X.             *)
(***************************************************************************)
IncludedDirectly == EntryPool[7]
IncludedByInclude == EntryPool[10]

\* the scalar x of the included file c3, as the returned tree shows it
IncludedScalar ==
  IF HasTop(IncludedDirectly)
    THEN RenderTree(RootTree[<<"h">>]).d[<<"x">>]
    ELSE RenderTree(RootTree[<<"g">>]).d[<<"y">>].d[<<"x">>]

DiscoveredLater ==
  /\ <<"b">> \notin DOMAIN RootDefaults
  /\ HasTop(EntryPool[2]) \/ HasTop(EntryPool[3])
  /\ HasTop(IncludedDirectly) \/ HasTop(IncludedByInclude)

C19_RetriesSeeRootVariables ==
  (Done /\ DiscoveredLater) =>
     /\ Returned
     /\ IncludedScalar.k = "str"
     /\ IncludedScalar.s = <<"X">>

(***************************************************************************)
(* C20  Include is blocking and depth-first.  In the step in which         *)
(* yaml.load returns the tree of an included file to                       *)
(* IncludeNode.from_yaml, the list of the child Loader is empty, and every *)
(* LazyString that the child Loader made has its data: none has a retry    *)
(* waiting on the list of another Loader.                                  *)
(***************************************************************************)
IncludeReturns ==
  /\ InDoc("while")
  /\ Top.via = "include"
  /\ Len(stack') = Len(stack) - 1
  /\ result'.status = "running"

C20_IncludeDrained ==
  [][IncludeReturns =>
       /\ loaders[Top.ld].state_generators = <<>>
       /\ \A n \in DOMAIN lazies :
             lazies[n].loader = Top.ld =>
               lazies[n].init /\ Queued(DeferGen(n)) = 0]_vars

(***************************************************************************)
(* C21  No orphaned and no duplicated step.  While a load runs, a          *)
(* LazyString without its data has exactly one generator, the rest of its  *)
(* start() or one defer(), and that generator is on the list of its own    *)
(* Loader or of the root, or in the pass that one of the two is running;   *)
(* a LazyString with its data has none.  The tries of a LazyTemplate are   *)
(* within 0..5 and no step raises them.                                    *)
(***************************************************************************)
\* the generators of LazyTemplate n
GeneratorsOf(n) == {StartGen(n), DeferGen(n)}

\* 1 when the running pass is about to resume a generator of n
Current(n) == IF InDoc("for") /\ Gen \in GeneratorsOf(n) THEN 1 ELSE 0

Outstanding(n) == Queued(StartGen(n)) + Queued(DeferGen(n)) + Current(n)

\* the Loaders whose list, or whose running pass, holds a generator of n
Holders(n) ==
  {L \in DOMAIN loaders :
     GeneratorsOf(n) \cap Range(loaders[L].state_generators) # {}}
  \cup {stack[m].ld : m \in {q \in DOMAIN stack :
          /\ stack[q].f = "doc" /\ stack[q].pc = "for"
          /\ GeneratorsOf(n) \cap
               Range(SubSeq(stack[q].gens, stack[q].i, Len(stack[q].gens)))
             # {}}}

RootOf(L) == IF loaders[L].root # 0 THEN loaders[L].root ELSE L

C21_State ==
  \A n \in DOMAIN lazies :
     /\ lazies[n].tries \in 0..DefaultTries
     /\ result.status = "running" =>
          IF lazies[n].init THEN Outstanding(n) = 0
          ELSE /\ Outstanding(n) = 1
               /\ Holders(n) \subseteq
                    {lazies[n].loader, RootOf(lazies[n].loader)}

C21_Step ==
  \A n \in DOMAIN lazies :
     n \in DOMAIN lazies' /\ lazies'[n].tries <= lazies[n].tries

C21_OneContinuation == []C21_State /\ [][C21_Step]_vars

\* the retry of a template of an included file waits on the list of the root
C21_Witness ==
  /\ result.status = "running"
  /\ \E n \in DOMAIN lazies :
        /\ lazies[n].loader # 1
        /\ ~lazies[n].init
        /\ lazies[n].tries < DefaultTries
        /\ DeferGen(n) \in Range(loaders[1].state_generators)

(***************************************************************************)
(* onl-install: App.main, App.run and App._runInitrd of SystemInstall.py.  *)
(* check_call, the Upgrader of ShellApp, the OnieHelper and the file       *)
(* operations are outside this file: each one returns or raises.           *)
(***************************************************************************)
\* largest number of lines of /proc/mounts
MaxMounts == 2

Mount(dir, fsType, dev) == [dir |-> dir, fsType |-> fsType, dev |-> dev]

MountPool ==
  << Mount(<<"/","t","m","p">>, "tmpfs", 1),
     Mount(<<"/","m","n","t","/","o","n","l","/","b","o","o","t">>, "ext4", 2),
     Mount(<<"/","m","n","t","/","o","n","l","/","d","a","t","a">>, "ext4", 3),
     Mount(<<"/","m","n","t","/","u","s","b">>, "vfat", 4),
     Mount(<<"/","r","u","n">>, "tmpfs", 5) >>

\* what /proc/mounts can hold: no mount point twice
MountLists ==
  {[p \in DOMAIN o |-> MountPool[o[p]]] :
     o \in {q \in UNION {[1..n -> DOMAIN MountPool] : n \in 0..MaxMounts} :
              \A a, b \in DOMAIN q : a # b => q[a] # q[b]}}

\* str.startswith
StartsWith(s, prefix) ==
  Len(s) >= Len(prefix) /\ SubSeq(s, 1, Len(prefix)) = prefix

MNT_ONL == <<"/","m","n","t","/","o","n","l">>

\* a mount that is never taken for one of ONL
StillMountedNever(m) == FALSE

\* App.run, line 235
StillMounted(m) == StartsWith(m.dir, MNT_ONL)

\* os.stat('/tmp').st_dev: the device of the mount at /tmp, or of the root
RootDev == 0
TmpDev(mnts) ==
  IF \E p \in DOMAIN mnts : mnts[p].dir = MountPool[1].dir
    THEN (CHOOSE m \in Range(mnts) : m.dir = MountPool[1].dir).dev
    ELSE RootDev

\* App.run, lines 212-221: the positions of the tmpfs/ramfs mounts that hold
\* /tmp; pdir is the directory of the last one
TmpMounts(mnts) ==
  {p \in DOMAIN mnts :
     mnts[p].fsType \in {"ramfs", "tmpfs"} /\ mnts[p].dev = TmpDev(mnts)}

Command(cmd, dir) == [cmd |-> cmd, dir |-> dir]

\* App.run, lines 224-232
ResizeCommand(mnts) ==
  IF TmpMounts(mnts) = {} THEN Command("mount", MountPool[1].dir)
  ELSE Command("remount",
               mnts[CHOOSE p \in TmpMounts(mnts) :
                      \A q \in TmpMounts(mnts) : q <= p].dir)

\* the variables of the YAML loader, which onl-install leaves alone
loading ==
  <<strict, document, loaders, dicts, lazies, stack, result, tmpfiles,
    tmpcount, ran, opened, first, dumped>>

\* App.main has made the App (line 286) and is about to call app.run()
InitInstall ==
  /\ force \in BOOLEAN
  /\ mounts \in MountLists
  /\ mainpc = "run"
  /\ idx = 0
  /\ commands = <<>>
  /\ upgrader = NoUpgrader
  /\ helpers = <<>>
  /\ onieHelper = 0
  /\ code = -1
  /\ outcome = NoRun
  /\ strict = FALSE
  /\ document = NoNode
  /\ loaders = <<>>
  /\ dicts = <<>>
  /\ lazies = <<>>
  /\ stack = <<>>
  /\ result = Running
  /\ tmpfiles = {}
  /\ tmpcount = 0
  /\ ran = <<>>
  /\ opened = <<>>
  /\ first = NoOutcome
  /\ dumped = NoDump

\* an exception leaves App.run: App.main catches it at line 290
runRaises ==
  /\ outcome' = [outcome EXCEPT !.run = "raised"]
  /\ mainpc' = "except"

\* App.run returns c to App.main
runReturns(c) ==
  /\ outcome' = [outcome EXCEPT !.run = "returned"]
  /\ code' = c
  /\ mainpc' = "shutdown"

\* App.run, lines 208-232: the mount or remount of /tmp
ResizeTmp ==
  /\ mainpc = "run"
  /\ commands' = Append(commands, ResizeCommand(mounts))
  /\ \E ok \in BOOLEAN :
       IF ok THEN mainpc' = "mounts" /\ idx' = 1 /\ UNCHANGED outcome
       ELSE runRaises /\ UNCHANGED idx
  /\ UNCHANGED <<force, mounts, upgrader, helpers, onieHelper, code, loading>>

InLoop == mainpc = "mounts" /\ idx <= Len(mounts)

\* App.run, lines 234-235: a mount that is not under /mnt/onl
SkipMount ==
  /\ InLoop
  /\ ~StillMounted(mounts[idx])
  /\ idx' = idx + 1
  /\ UNCHANGED <<force, mounts, mainpc, commands, upgrader, helpers,
                 onieHelper, code, outcome, loading>>

\* App.run, lines 236-238
RefuseMounted ==
  /\ InLoop
  /\ StillMounted(mounts[idx])
  /\ ~force
  /\ runReturns(1)
  /\ UNCHANGED <<force, mounts, idx, commands, upgrader, helpers, onieHelper,
                 loading>>

\* App.run, lines 239-240
Unmount ==
  /\ InLoop
  /\ StillMounted(mounts[idx])
  /\ force
  /\ commands' = Append(commands, Command("umount", mounts[idx].dir))
  /\ \E ok \in BOOLEAN :
       IF ok THEN idx' = idx + 1 /\ UNCHANGED <<mainpc, outcome>>
       ELSE runRaises /\ UNCHANGED idx
  /\ UNCHANGED <<force, mounts, upgrader, helpers, onieHelper, code, loading>>

\* App.run, line 242
CreateUpgrader ==
  /\ mainpc = "mounts" /\ idx > Len(mounts)
  /\ upgrader' = [upgrader EXCEPT !.created = TRUE]
  /\ mainpc' = "created"
  /\ UNCHANGED <<force, mounts, idx, commands, helpers, onieHelper, code,
                 outcome, loading>>

\* App.run, line 244: upgrader.run() is called
StartUpgrader ==
  /\ mainpc = "created"
  /\ upgrader' = [upgrader EXCEPT !.started = TRUE]
  /\ mainpc' = "upgrader"
  /\ UNCHANGED <<force, mounts, idx, commands, helpers, onieHelper, code,
                 outcome, loading>>

\* Upgrader.run calls _runInitrdShell, which calls App._runInitrd (line 36)
UpgraderCallback ==
  /\ mainpc = "upgrader"
  /\ ~upgrader.called
  /\ upgrader' = [upgrader EXCEPT !.called = TRUE]
  /\ mainpc' = "initrd"
  /\ UNCHANGED <<force, mounts, idx, commands, helpers, onieHelper, code,
                 outcome, loading>>

\* App.run, line 244: upgrader.run() returns a code
UpgraderReturns ==
  /\ mainpc = "upgrader"
  /\ \E c \in {0, 1} : code' = c
  /\ mainpc' = "upgrader_shutdown"
  /\ UNCHANGED <<force, mounts, idx, commands, upgrader, helpers, onieHelper,
                 outcome, loading>>

\* App.run, lines 245-247: upgrader.run() raises
UpgraderRaises ==
  /\ mainpc = "upgrader"
  /\ upgrader' = [upgrader EXCEPT !.raised = TRUE]
  /\ code' = 1
  /\ mainpc' = "upgrader_shutdown"
  /\ UNCHANGED <<force, mounts, idx, commands, helpers, onieHelper, outcome,
                 loading>>

\* App.run, lines 248-249
UpgraderShutdown ==
  /\ mainpc = "upgrader_shutdown"
  /\ upgrader' = [upgrader EXCEPT !.shutdowns = @ + 1]
  /\ runReturns(code)
  /\ UNCHANGED <<force, mounts, idx, commands, helpers, onieHelper, loading>>

\* _runInitrd returns or raises: Upgrader.run goes on
leaveInitrd == mainpc' = "upgrader"

\* App._runInitrd, lines 52-57: InitrdContext and mkdtemp
EnterInitrd ==
  /\ mainpc = "initrd"
  /\ \E ok \in BOOLEAN : IF ok THEN mainpc' = "onie" ELSE leaveInitrd
  /\ UNCHANGED <<force, mounts, idx, commands, upgrader, helpers, onieHelper,
                 code, outcome, loading>>

\* App._runInitrd, lines 59-63: the OnieHelper is made and run; it gives 0,
\* another code (line 63 returns it) or raises
RunOnie ==
  /\ mainpc = "onie"
  /\ helpers' = Append(helpers, 0)
  /\ onieHelper' = Len(helpers) + 1
  /\ \E r \in {"zero", "code", "raise"} :
       IF r = "zero" THEN mainpc' = "copy" ELSE leaveInitrd
  /\ UNCHANGED <<force, mounts, idx, commands, upgrader, code, outcome,
                 loading>>

\* App._runInitrd, lines 64-70: machine.conf is copied
CopyMachineConf ==
  /\ mainpc = "copy"
  /\ \E ok \in BOOLEAN : IF ok THEN mainpc' = "release" ELSE leaveInitrd
  /\ UNCHANGED <<force, mounts, idx, commands, upgrader, helpers, onieHelper,
                 code, outcome, loading>>

\* a shutdown() that is not called
shutdownSkipped(hs, h) == hs

\* `h, self.onieHelper = self.onieHelper, None; if h is not None:
\* h.shutdown()` (lines 72-74 and 253-255): the helpers after it
shutdownHelper(hs, h) == IF h # 0 THEN [hs EXCEPT ![h] = @ + 1] ELSE hs

\* App._runInitrd, lines 72-74
ReleaseOnie ==
  /\ mainpc = "release"
  /\ helpers' = shutdownHelper(helpers, onieHelper)
  /\ onieHelper' = 0
  /\ mainpc' = "stage"
  /\ UNCHANGED <<force, mounts, idx, commands, upgrader, code, outcome,
                 loading>>

\* App._runInitrd, lines 76-190: the installer directory is populated
StageInstaller ==
  /\ mainpc = "stage"
  /\ \E ok \in BOOLEAN : IF ok THEN mainpc' = "chroot" ELSE leaveInitrd
  /\ UNCHANGED <<force, mounts, idx, commands, upgrader, helpers, onieHelper,
                 code, outcome, loading>>

\* App._runInitrd, lines 195-202: onl-install runs in the chroot; a
\* CalledProcessError is dropped
Chroot ==
  /\ mainpc = "chroot"
  /\ commands' = Append(commands, Command("chroot", <<>>))
  /\ leaveInitrd
  /\ UNCHANGED <<force, mounts, idx, upgrader, helpers, onieHelper, code,
                 outcome, loading>>

\* App.main, lines 290-292
MainExcept ==
  /\ mainpc = "except"
  /\ code' = 1
  /\ mainpc' = "shutdown"
  /\ UNCHANGED <<force, mounts, idx, commands, upgrader, helpers, onieHelper,
                 outcome, loading>>

\* App.main, lines 296-297: app.shutdown() (lines 251-255) and sys.exit(code)
MainShutdown ==
  /\ mainpc = "shutdown"
  /\ helpers' = shutdownHelper(helpers, onieHelper)
  /\ onieHelper' = 0
  /\ outcome' = [outcome EXCEPT !.exit = code]
  /\ mainpc' = "exit"
  /\ UNCHANGED <<force, mounts, idx, commands, upgrader, code, loading>>

NextInstall ==
  \/ ResizeTmp
  \/ SkipMount
  \/ RefuseMounted
  \/ Unmount
  \/ CreateUpgrader
  \/ StartUpgrader
  \/ UpgraderCallback
  \/ UpgraderReturns
  \/ UpgraderRaises
  \/ UpgraderShutdown
  \/ EnterInitrd
  \/ RunOnie
  \/ CopyMachineConf
  \/ ReleaseOnie
  \/ StageInstaller
  \/ Chroot
  \/ MainExcept
  \/ MainShutdown

SpecInstall == InitInstall /\ [][NextInstall]_vars

(***************************************************************************)
(* C22                                                                     *)
(***************************************************************************)
\* a mount point that is /mnt/onl or lies below it
UnderOnl(m) ==
  \/ m.dir = MNT_ONL
  \/ StartsWith(m.dir, MNT_ONL \o <<"/">>)

Unmounted == {commands[i].dir : i \in {j \in DOMAIN commands :
                                         commands[j].cmd = "umount"}}

Guarded == ~force /\ \E p \in DOMAIN mounts : UnderOnl(mounts[p])

Exited == mainpc = "exit"

\* with force false and a mount under /mnt/onl nothing is unmounted and the
\* upgrader is neither created nor run
C22_Refused ==
  Guarded => /\ Unmounted = {}
             /\ ~upgrader.created
             /\ ~upgrader.started

\* once the upgrader exists the loop is over and every mount under /mnt/onl
\* has been unmounted
C22_Forced ==
  upgrader.created =>
    /\ idx = Len(mounts) + 1
    /\ \A p \in DOMAIN mounts : UnderOnl(mounts[p]) => mounts[p].dir \in Unmounted

\* the upgrader is created and started after the loop, and nothing is
\* unmounted once it exists
C22_Step ==
  /\ upgrader'.created /\ ~upgrader.created =>
       idx > Len(mounts) /\ C22_Forced'
  /\ upgrader'.started /\ ~upgrader.started =>
       idx > Len(mounts) /\ upgrader.created
  /\ upgrader.created => Unmounted' = Unmounted

\* C22 as stated: with force false and a mount under /mnt/onl, App.run
\* returns 1
C22_ReturnsOne ==
  Guarded /\ Exited => outcome.run = "returned" /\ code = 1

\* with force false and a mount under /mnt/onl, App.run returns 1, unless the
\* resize of /tmp that comes before the loop failed: then run raises before
\* it looks at the mounts, and App.main exits with 1
C22_ReturnsOneOrRaises ==
  Guarded /\ Exited =>
    /\ outcome.exit = 1
    /\ \/ outcome.run = "returned" /\ code = 1 /\ idx >= 1
       \/ outcome.run = "raised" /\ idx = 0 /\ Len(commands) = 1

\* C22: in App.run, if a mount point under /mnt/onl is still mounted and
\* force is false, run returns 1 (or raises when the resize of /tmp before
\* the loop fails) without unmounting anything and without creating or
\* running the upgrader; with force true every such mount is unmounted before
\* the upgrader is created, and the upgrader is started only after the loop
\* over the mounts has finished
C22_Guard ==
  /\ [](C22_Refused /\ C22_ReturnsOneOrRaises /\ C22_Forced)
  /\ [][C22_Step]_vars

\* run has refused to go on: a mount under /mnt/onl, force false, 1 returned
C22_Witness ==
  /\ Guarded
  /\ Exited
  /\ outcome.run = "returned"
  /\ code = 1
  /\ idx >= 1

(***************************************************************************)
(* C23                                                                     *)
(***************************************************************************)
\* nothing is shut down twice
C23_AtMostOnce ==
  /\ upgrader.shutdowns <= 1
  /\ upgrader.shutdowns = 1 => upgrader.created
  /\ \A h \in DOMAIN helpers : helpers[h] <= 1

\* when App.main exits, the upgrader and every OnieHelper that were made have
\* been shut down and App.onieHelper is None
C23_CleanAtExit ==
  Exited =>
    /\ upgrader.created => upgrader.shutdowns = 1
    /\ \A h \in DOMAIN helpers : helpers[h] = 1
    /\ onieHelper = 0

\* once the upgrader runs, App.run returns; it returns 1 when the upgrader
\* raised
C23_RunReturns ==
  /\ upgrader.started => outcome.run # "raised"
  /\ upgrader.started /\ Exited => outcome.run = "returned" /\ outcome.exit = code
  /\ upgrader.raised /\ Exited => outcome.run = "returned" /\ code = 1

\* C23: on every path of App.main (normal completion, a non-zero code from
\* the ONIE helper, an exception inside _runInitrd or inside the upgrader)
\* the upgrader created by run is shut down exactly once, every OnieHelper
\* created by _runInitrd is shut down exactly once and App.onieHelper is None
\* afterwards, and an exception in the upgrader makes run return 1 instead of
\* propagating
C23_Cleanup == C23_AtMostOnce /\ C23_CleanAtExit /\ C23_RunReturns

\* App.main has exited after the upgrader raised with an OnieHelper made and
\* no chroot reached
C23_Witness ==
  /\ Exited
  /\ upgrader.raised
  /\ upgrader.shutdowns = 1
  /\ helpers = <<1>>
  /\ \A i \in DOMAIN commands : commands[i].cmd # "chroot"

====
